---- MODULE Spec2Model ----
(***************************************************************************)
(* A model of the asset pipeline of tent/asset-matrix-go:                  *)
(*   - the FD budget (fdBucket, shouldOpenFD, waitFD, fdClosed),           *)
(*   - the extension registry (Register, FindHandlers),                    *)
(*   - the chain builder (NewFileHandler, buildHandlerChain),              *)
(*   - the execution engine (FileHandler.Handle),                          *)
(*   - the concatenation merge engine (AddFileHandler, MergeWithParents,   *)
(*     removeIncompatibleHandlers, concatenateAtIndex, ConfigureHandlers)  *)
(*     and Manifest.WriteOutput.                                           *)
(* Each part has its own specification over its own variables; the other   *)
(* variables stay at their idle values.                                    *)
(***************************************************************************)
EXTENDS Integers, Sequences, FiniteSets, TLC

VARIABLES
    capacity,   \* cap(fdBucket)
    held,       \* len(fdBucket): the permits currently held
    fdCall      \* per client goroutine: its call of shouldOpenFD in progress

VARIABLES
    registeredHandlers, \* map[input ext]map[output ext]{handler, options}
    calls,              \* the calls of Register the registry's specification
                        \* writes down, in their order
    root,               \* the inExt the user called NewFileHandler with
    chains,             \* HandlerChain of every FileHandler the builder made
    stack,              \* the open calls of buildHandlerChain, innermost last
    bpc                 \* where the caller of NewFileHandler stands

VARIABLES
    HandlerChain,       \* FileHandler.HandlerChain of every file of the manifest
    FileSet,            \* FileHandler.FileSet: the declared child ordering
    ParentHandlers,     \* FileHandler.ParentHandlers
    fileHandlers,       \* manifest.fileHandlers, in the order of the merge loop
    mpc,                \* where ConfigureHandlers, then WriteOutput stands
    merged,             \* per file: what its call of MergeWithParents did
    windex,             \* the i of the loop of WriteOutput
    output              \* the files WriteOutput has written, in their order

VARIABLES
    execChain,          \* fileHandler.HandlerChain of the chain Handle executes
    file,               \* the chunks of the source file not yet read
    pipes,              \* the io.Pipe()s: pipes[1] from the source, pipes[i+1] from step i
    err,                \* Handle's named result err, which its goroutines share
    handle,             \* the goroutine that called Handle
    source,             \* the goroutine of lines 125-131
    worker,             \* the goroutines of handlerFn, one per step
    others              \* the permits held by other users of the pool

fdVars == <<capacity, held, fdCall>>
handleVars == <<execChain, file, pipes, err, handle, source, worker, others>>
buildVars == <<registeredHandlers, calls, root, chains, stack, bpc>>
mergeVars == <<HandlerChain, FileSet, ParentHandlers, fileHandlers, mpc, merged,
              windex, output>>

vars == <<fdVars, handleVars, buildVars, mergeVars>>

\* What the actions of one part leave alone.
fdOthers == <<handleVars, buildVars, mergeVars>>
handleOthers == <<fdCall, buildVars, mergeVars>>
buildOthers == <<fdVars, handleVars, mergeVars>>
mergeOthers == <<fdVars, handleVars, buildVars>>

(***************************************************************************)
(* Bounds of the model.                                                    *)
(***************************************************************************)
MaxCap == 3         \* largest capacity given to SetFDLimit
MaxN == 3           \* largest n given to shouldOpenFD
NClients == 2       \* goroutines using the pool concurrently

Clients == 1..NClients

(***************************************************************************)
(* The FD budget: src/unnamed/part_000 lines 57-83.                        *)
(* fdBucket is a buffered channel of empty structs; only its length and    *)
(* its capacity matter. A send blocks while the buffer is full, a receive  *)
(* blocks while it is empty.                                               *)
(***************************************************************************)

\* SetFDLimit(limit): fdBucket = make(chan struct{}, limit), at process start.
SetFDLimit(limit) ==
    /\ capacity = limit
    /\ held = 0

\* fdBucket <- struct{}{} with a full buffer modelled as buffer overrun.
SendFD_unbounded ==
    held' = held + 1

\* fdBucket <- struct{}{} : enabled only while the buffer has room.
SendFD ==
    /\ held < capacity
    /\ held' = held + 1

\* <-fdBucket : enabled only while the buffer is not empty.
RecvFD ==
    /\ held > 0
    /\ held' = held - 1

\* A call of shouldOpenFD: n is the count it still has to claim; expect is
\* the held count there would be had this call claimed nothing (the held
\* count at the call, moved by the sends and receives of the other
\* goroutines since); at the return, ret is the result and kept the held
\* count less expect: the permits the call claimed and left claimed.
\* alone tells that no other goroutine has sent to or received from
\* fdBucket during the call.
IdleCall == [pc |-> "idle", n |-> 0, expect |-> 0, ret |-> "none", kept |-> 0,
             alone |-> TRUE]

\* What the other callers in the middle of shouldOpenFD see of a pool
\* operation by client c that changed the held count by d.
Foreign(c, d) ==
    [x \in Clients |->
        IF x # c /\ fdCall[x].pc = "try"
        THEN [fdCall[x] EXCEPT !.expect = @ + d, !.alone = FALSE]
        ELSE fdCall[x]]

\* A client calls shouldOpenFD(n).
CallShouldOpenFD(c, n) ==
    /\ fdCall[c].pc = "idle"
    /\ fdCall' = [fdCall EXCEPT ![c] =
            [pc |-> "try", n |-> n, expect |-> held, ret |-> "none", kept |-> 0,
             alone |-> TRUE]]
    /\ UNCHANGED <<capacity, held, fdOthers>>

\* shouldOpenFD whose select has no default case.
shouldOpenFD_blocking(c) ==
    /\ fdCall[c].pc = "try"
    /\ SendFD
    /\ fdCall' = [Foreign(c, 1) EXCEPT ![c] =
            IF fdCall[c].n - 1 = 0
            THEN [@ EXCEPT !.pc = "idle", !.n = 0, !.expect = 0, !.ret = "true",
                           !.kept = held + 1 - fdCall[c].expect]
            ELSE [@ EXCEPT !.n = @ - 1]]
    /\ UNCHANGED <<capacity, fdOthers>>

\* One iteration of the for/select loop of shouldOpenFD.
shouldOpenFD(c) ==
    /\ fdCall[c].pc = "try"
    /\ IF held < capacity
       THEN \* case fdBucket <- struct{}{}: n--; if n == 0 { return true }
            /\ SendFD
            /\ fdCall' = [Foreign(c, 1) EXCEPT ![c] =
                    IF fdCall[c].n - 1 = 0
                    THEN [@ EXCEPT !.pc = "idle", !.n = 0, !.expect = 0,
                                   !.ret = "true",
                                   !.kept = held + 1 - fdCall[c].expect]
                    ELSE [@ EXCEPT !.n = @ - 1]]
       ELSE \* default: return false
            /\ fdCall' = [fdCall EXCEPT ![c] =
                    [@ EXCEPT !.pc = "idle", !.n = 0, !.expect = 0, !.ret = "false",
                               !.kept = held - fdCall[c].expect]]
            /\ UNCHANGED held
    /\ UNCHANGED <<capacity, fdOthers>>

\* waitFD(): a blocking send.
waitFD(c) ==
    /\ fdCall[c].pc = "idle"
    /\ SendFD
    /\ fdCall' = Foreign(c, 1)
    /\ UNCHANGED <<capacity, fdOthers>>

\* fdClosed(): a blocking receive.
fdClosed(c) ==
    /\ fdCall[c].pc = "idle"
    /\ RecvFD
    /\ fdCall' = Foreign(c, -1)
    /\ UNCHANGED <<capacity, fdOthers>>

\* No call of Handle has been made.
HandleIdle ==
    /\ execChain = <<>>
    /\ file = 0
    /\ pipes = <<>>
    /\ err = 0
    /\ handle = <<>>
    /\ source = <<>>
    /\ worker = <<>>
    /\ others = 0

(***************************************************************************)
(* The extension registry and the chain builder:                           *)
(* src/unnamed/part_000 lines 36-51, src/matrix/file_handler.go 18-42.     *)
(***************************************************************************)
MaxRegs == 3        \* registered (inExt, outExt) pairs
MaxDepth == 5       \* nested calls the goroutine stack holds
MaxCalls == 3       \* calls of Register written down

Exts == {"a", "b", "c"}
Wildcard == "*"
Keys == Exts \cup {Wildcard}
InputModes == {"Flow", "Fork"}

\* registeredHandlers[inExt] is a function from output extensions to the
\* InputMode of the registered handler, "none" where nothing is registered;
\* a map with no entry at all is the nil map (Register never leaves an
\* empty map behind).
NoHandlers == [out \in Exts |-> "none"]

\* A lookup whose result is never taken for nil.
IsNil_never(handlers) == FALSE

IsNil(handlers) == \A out \in Exts : handlers[out] = "none"

Entries(handlers) == {out \in Exts : handlers[out] # "none"}

NumRegistered ==
    Cardinality({p \in Keys \X Exts : registeredHandlers[p[1]][p[2]] # "none"})

\* FindHandlers that fills what inExt lacks from the map of "*".
FindHandlers_mixed(inExt) ==
    [out \in Exts |->
        IF registeredHandlers[inExt][out] # "none"
        THEN registeredHandlers[inExt][out]
        ELSE registeredHandlers[Wildcard][out]]

\* FindHandlers(inExt): the map of inExt if there is one, else the map of "*".
FindHandlers(inExt) ==
    IF ~IsNil(registeredHandlers[inExt])
    THEN registeredHandlers[inExt]
    ELSE registeredHandlers[Wildcard]

\* The steps of a chain: what kind of Handler, its OutputExt() (out), the
\* FileHandler a fork or concatenation step holds (sub) and the mode of a
\* concatenation step.
\* NewDefaultHandler is not part of the sources at hand; section 8 of the
\* specification (default fallback) gives the OutputExt() of the handler it
\* makes: the input extension.
DefaultOutputExt(inExt) == inExt

DefaultStep(inExt) ==
    [kind |-> "default", in |-> inExt, out |-> DefaultOutputExt(inExt),
     sub |-> 0, mode |-> "none"]
HandlerStep(inExt, outExt) ==
    [kind |-> "handler", in |-> inExt, out |-> outExt, sub |-> 0, mode |-> "none"]
ForkStep(inExt, fh) ==
    [kind |-> "fork", in |-> inExt, out |-> inExt, sub |-> fh, mode |-> "none"]
\* NewConcatenationHandler is not part of the sources at hand; section 4.4
\* step 2c of the specification gives the OutputExt() of the handler it
\* makes: the shared extension it is given.
ConcatenationOutputExt(ext) == ext

ConcatenationStep(child, mode, ext) ==
    [kind |-> "concat", in |-> ext, out |-> ConcatenationOutputExt(ext),
     sub |-> child, mode |-> mode]

Frame(fh, inExt, forkFor) ==
    [fh |-> fh, inExt |-> inExt, phase |-> "enter", todo |-> {},
     canAppendFlow |-> TRUE, forkFor |-> forkFor]

Top == stack[Len(stack)]

\* The return of the innermost call: the frame is dropped; the return of
\* NewFileHandler(inExt) at line 38 hands the new FileHandler to
\* NewForkHandler and the fork step is appended to the caller's chain.
Return(st, ch) ==
    LET top == st[Len(st)]
        rest == SubSeq(st, 1, Len(st) - 1)
    IN  [stack |-> rest,
         chains |-> IF top.forkFor # 0
                    THEN [ch EXCEPT ![top.forkFor] =
                              Append(@, ForkStep(top.inExt, top.fh))]
                    ELSE ch,
         bpc |-> IF rest = <<>> THEN "done" ELSE "building"]

\* A nested call: a new frame, or the end of the goroutine's stack.
Call(st, frame) ==
    IF Len(st) < MaxDepth
    THEN [stack |-> Append(st, frame), bpc |-> "building"]
    ELSE [stack |-> st, bpc |-> "overflow"]

\* Register line 43, after lines 40-42 have made the map of inExt.
Registered(inExt, outExt, mode) ==
    [registeredHandlers EXCEPT ![inExt][outExt] = mode]

\* Register(inExt, outExt, handler, options)
Register(inExt, outExt, mode) ==
    /\ bpc = "idle"
    /\ \/ NumRegistered < MaxRegs
       \/ registeredHandlers[inExt][outExt] # "none"
    /\ registeredHandlers' = Registered(inExt, outExt, mode)
    /\ UNCHANGED <<calls, root, chains, stack, bpc, buildOthers>>

\* Register(inExt, outExt, handler, options), the call written down.
RegisterCall(inExt, outExt, mode) ==
    /\ Len(calls) < MaxCalls
    /\ registeredHandlers' = Registered(inExt, outExt, mode)
    /\ calls' = Append(calls, <<inExt, outExt, mode>>)
    /\ UNCHANGED <<root, chains, stack, bpc, buildOthers>>

\* NewFileHandler(inExt), called by the user of the package.
NewFileHandler(inExt) ==
    /\ bpc = "idle"
    /\ chains' = <<<<>>>>
    /\ stack' = <<Frame(1, inExt, 0)>>
    /\ bpc' = "building"
    /\ root' = inExt
    /\ UNCHANGED <<registeredHandlers, calls, buildOthers>>

\* buildHandlerChain lines 25-29: the lookup and the default handler.
BuildLookup ==
    /\ bpc = "building"
    /\ Top.phase = "enter"
    /\ LET handlers == FindHandlers(Top.inExt) IN
       IF IsNil(handlers) /\ Len(chains[Top.fh]) = 0
       THEN LET ch == [chains EXCEPT ![Top.fh] = Append(@, DefaultStep(Top.inExt))]
                r == Return(stack, ch)
            IN  /\ chains' = r.chains
                /\ stack' = r.stack
                /\ bpc' = r.bpc
       ELSE /\ stack' = [stack EXCEPT ![Len(stack)] =
                    [@ EXCEPT !.phase = "loop", !.todo = Entries(handlers)]]
            /\ UNCHANGED <<chains, bpc>>
    /\ UNCHANGED <<registeredHandlers, calls, root, buildOthers>>

\* A Flow entry that leaves canAppendFlow as it was.
AppendedFlow_again(frame, outExt) ==
    [frame EXCEPT !.todo = @ \ {outExt}]

\* buildHandlerChain line 34, for the entry outExt of the range:
\* canAppendFlow = false.
AppendedFlow(frame, outExt) ==
    [frame EXCEPT !.todo = @ \ {outExt}, !.canAppendFlow = FALSE]

\* buildHandlerChain lines 33-36: the first Flow entry met extends the
\* chain in place and the builder recurses on its output extension.
BuildFlow ==
    /\ bpc = "building"
    /\ Top.phase = "loop"
    /\ \E outExt \in Top.todo :
        /\ FindHandlers(Top.inExt)[outExt] = "Flow"
        /\ Top.canAppendFlow
        /\ LET st == [stack EXCEPT ![Len(stack)] = AppendedFlow(@, outExt)]
               r == Call(st, Frame(Top.fh, outExt, 0))
           IN  /\ chains' = [chains EXCEPT ![Top.fh] =
                        Append(@, HandlerStep(Top.inExt, outExt))]
               /\ stack' = r.stack
               /\ bpc' = r.bpc
    /\ UNCHANGED <<registeredHandlers, calls, root, buildOthers>>

\* buildHandlerChain lines 37-39: every other entry calls
\* NewFileHandler(inExt) for the chain its fork step wraps.
BuildFork ==
    /\ bpc = "building"
    /\ Top.phase = "loop"
    /\ \E outExt \in Top.todo :
        /\ ~(FindHandlers(Top.inExt)[outExt] = "Flow" /\ Top.canAppendFlow)
        /\ LET st == [stack EXCEPT ![Len(stack)] = [@ EXCEPT !.todo = @ \ {outExt}]]
               r == Call(st, Frame(Len(chains) + 1, Top.inExt, Top.fh))
           IN  /\ chains' = IF r.bpc = "overflow" THEN chains ELSE Append(chains, <<>>)
               /\ stack' = r.stack
               /\ bpc' = r.bpc
    /\ UNCHANGED <<registeredHandlers, calls, root, buildOthers>>

\* buildHandlerChain line 41-42: the range is over, the call returns.
BuildReturn ==
    /\ bpc = "building"
    /\ Top.phase = "loop"
    /\ Top.todo = {}
    /\ LET r == Return(stack, chains) IN
        /\ chains' = r.chains
        /\ stack' = r.stack
        /\ bpc' = r.bpc
    /\ UNCHANGED <<registeredHandlers, calls, root, buildOthers>>

MergeIdle ==
    /\ HandlerChain = <<>>
    /\ FileSet = <<>>
    /\ ParentHandlers = <<>>
    /\ fileHandlers = <<>>
    /\ mpc = "idle"
    /\ merged = <<>>
    /\ windex = 0
    /\ output = <<>>

BuildIdle ==
    /\ registeredHandlers = [k \in Keys |-> NoHandlers]
    /\ calls = <<>>
    /\ root = "none"
    /\ chains = <<>>
    /\ stack = <<>>
    /\ bpc = "idle"

FDIdle ==
    /\ capacity = 0
    /\ held = 0
    /\ fdCall = [c \in Clients |-> IdleCall]
    /\ HandleIdle

BuildInit ==
    /\ BuildIdle
    /\ FDIdle
    /\ MergeIdle

BuildNext ==
    \/ \E inExt \in Keys, outExt \in Exts, mode \in InputModes :
           Register(inExt, outExt, mode)
    \/ \E inExt \in Exts : NewFileHandler(inExt)
    \/ BuildLookup
    \/ BuildFlow
    \/ BuildFork
    \/ BuildReturn

SpecBuild == BuildInit /\ [][BuildNext]_vars

\* The extensions reachable from inExt in at least one step of the
\* extension graph: an edge inExt -> outExt for every entry FindHandlers
\* gives for inExt (the wildcard's entries where it falls back to them).
Succ(S) == {out \in Exts : \E x \in S : FindHandlers(x)[out] # "none"}

RECURSIVE ReachFrom(_, _)
ReachFrom(S, k) == IF k = 0 THEN S ELSE ReachFrom(S \cup Succ(S), k - 1)

Acyclic ==
    \A x \in Exts : x \notin ReachFrom(Succ({x}), Cardinality(Exts))

\* C3: over an acyclic extension graph NewFileHandler(inExt) terminates
\* (its recursion never outgrows the stack) and returns a chain of at
\* least one step.
C3_AcyclicBuildTerminates ==
    Acyclic =>
        /\ bpc # "overflow"
        /\ bpc = "done" => Len(chains[1]) >= 1

FDInit ==
    /\ \E limit \in 1..MaxCap : SetFDLimit(limit)
    /\ fdCall = [c \in Clients |-> IdleCall]
    /\ HandleIdle
    /\ BuildIdle
    /\ MergeIdle

FDNext ==
    \/ \E c \in Clients, n \in 1..MaxN : CallShouldOpenFD(c, n)
    \/ \E c \in Clients : shouldOpenFD(c)
    \/ \E c \in Clients : waitFD(c)
    \/ \E c \in Clients : fdClosed(c)

SpecFD == FDInit /\ [][FDNext]_vars

(***************************************************************************)
(* Claims about the FD budget.                                             *)
(***************************************************************************)

\* C1: a failed shouldOpenFD(n) is a no-op on the pool: the held count at
\* its return is the held count at its call, but for what the other
\* goroutines sent and received meanwhile; no permit claimed during the
\* attempt stays claimed.
C1_FailedTryIsNoOp ==
    \A c \in Clients :
        fdCall[c].ret = "false" => fdCall[c].kept = 0

\* C2: the number of held permits is always between 0 and the capacity.
C2_HeldWithinCapacity ==
    /\ held >= 0
    /\ held <= capacity

\* The pool is full after a successful try-acquire of two permits or more
\* and a failed try-acquire that left a permit claimed.
C2_Witness ==
    /\ held = capacity
    /\ capacity >= 2
    /\ \E c, d \in Clients :
        /\ fdCall[c].ret = "true"
        /\ fdCall[c].kept >= 2
        /\ fdCall[d].ret = "false"
        /\ fdCall[d].kept > 0

(***************************************************************************)
(* The concatenation merge engine: src/matrix/file_handler.go lines 44-111 *)
(* and Manifest.ConfigureHandlers, lines 293-332.                          *)
(* Indices are those of Go plus one.                                       *)
(***************************************************************************)
NFiles == 3         \* files of the manifest
MaxChain == 2       \* steps of a chain before any merge
MaxIncludes == 3    \* files named by the directives of all files together

Files == 1..NFiles
ChainExts == {"b", "c"}
SourceExt == "a"

Range(seq) == {seq[i] : i \in 1..Len(seq)}

Outs(chain) == {chain[i].out : i \in 1..Len(chain)}

\* The chains MergeWithParents may find in FileHandler.HandlerChain, an
\* exported field: handlers from the file's extension on, no output
\* extension met twice.  What OutputExt() answers is up to each handler
\* (it need not be the extension the handler is registered under), an
\* extension with two Flow registrations puts both branches in the one
\* chain, and the merge reads nothing of a step but OutputExt(): two
\* files of a manifest may hold chains that share an extension and go on
\* differently.
RECURSIVE ChainOf(_, _)
ChainOf(inExt, outs) ==
    IF outs = <<>> THEN <<>>
    ELSE <<HandlerStep(inExt, Head(outs))>> \o ChainOf(Head(outs), Tail(outs))

InitialChains ==
    {ChainOf(SourceExt, outs) :
        outs \in {o \in UNION {[1..n -> ChainExts] : n \in 1..MaxChain} :
                    \A i, j \in 1..Len(o) : i # j => o[i] # o[j]}}

\* addHandlerAfterIndex that puts the handler at the end of the chain.
addHandlerAfterIndex_atEnd(chain, handler, index) ==
    Append(chain, handler)

\* addHandlerAfterIndex(handler, index)
addHandlerAfterIndex(chain, handler, index) ==
    IF index \in 1..Len(chain)
    THEN SubSeq(chain, 1, index) \o <<handler>> \o SubSeq(chain, index + 1, Len(chain))
    ELSE chain

\* concatenateAtIndex whose scan of the FileSet never looks for the parent.
ConcatenationMode_childOnly(fs, parent, child, k) ==
    "Prepend"

\* concatenateAtIndex lines 67-77: the mode, from the scan of parent.FileSet
\* from entry k on.
RECURSIVE ConcatenationMode(_, _, _, _)
ConcatenationMode(fs, parent, child, k) ==
    IF k > Len(fs) THEN "Prepend"
    ELSE IF fs[k] = child THEN "Prepend"
    ELSE IF fs[k] = parent THEN "Append"
    ELSE ConcatenationMode(fs, parent, child, k + 1)

\* parent.concatenateAtIndex(child, handlerIndex): the parent's new chain.
concatenateAtIndex(chain, fs, parent, child, handlerIndex) ==
    LET mode == ConcatenationMode(fs, parent, child, 1)
        ext == chain[handlerIndex].out
    IN  addHandlerAfterIndex(chain, ConcatenationStep(child, mode, ext), handlerIndex)

\* removeIncompatibleHandlers that reports no error when nothing matches.
RECURSIVE removeIncompatibleHandlers_noError(_, _, _, _)
removeIncompatibleHandlers_noError(a, b, i, j) ==
    IF i < 1 THEN [index |-> 1, err |-> FALSE, a |-> a]
    ELSE IF j < 1 THEN removeIncompatibleHandlers_noError(a, b, i - 1, Len(b))
    ELSE IF a[i].out = b[j].out
         THEN [index |-> j, err |-> FALSE, a |-> SubSeq(a, 1, i - 1)]
         ELSE removeIncompatibleHandlers_noError(a, b, i, j - 1)

\* removeIncompatibleHandlers(a, b), its two loops standing at (i, j): the
\* index into b and the error it returns, and its local slice a, which
\* `a = a[0:i]` cuts and which the caller never sees.
RECURSIVE removeIncompatibleHandlers(_, _, _, _)
removeIncompatibleHandlers(a, b, i, j) ==
    IF i < 1 THEN [index |-> 1, err |-> TRUE, a |-> a]
    ELSE IF j < 1 THEN removeIncompatibleHandlers(a, b, i - 1, Len(b))
    ELSE IF a[i].out = b[j].out
         THEN [index |-> j, err |-> FALSE, a |-> SubSeq(a, 1, i - 1)]
         ELSE removeIncompatibleHandlers(a, b, i, j - 1)

\* sort.Sort(byLenHandlerChain(...)): the orders a sort that is not stable
\* may leave, the shortest chain first. The type byLenHandlerChain is not
\* part of the sources at hand; its order is that of the comment at line 84
\* and of section 4.4 step 1 of the specification.
SortedByLenHandlerChain(parents, hc) ==
    {s \in {[i \in 1..Len(parents) |-> parents[f[i]]] :
                f \in Permutations(1..Len(parents))} :
        \A i \in 1..(Len(s) - 1) : Len(hc[s[i]]) <= Len(hc[s[i + 1]])}

\* The loop of MergeWithParents run over the sorted parents from the last.
RECURSIVE MergeLoop_reversed(_, _, _, _, _)
MergeLoop_reversed(child, ps, hc, fs, into) ==
    IF ps = <<>> THEN [hc |-> hc, err |-> FALSE, into |-> into]
    ELSE LET parent == ps[Len(ps)]
             r == removeIncompatibleHandlers(hc[child], hc[parent],
                                             Len(hc[child]), Len(hc[parent]))
         IN  IF r.err
             THEN [hc |-> hc, err |-> TRUE, into |-> into]
             ELSE MergeLoop_reversed(child, SubSeq(ps, 1, Len(ps) - 1),
                    [hc EXCEPT ![parent] =
                        concatenateAtIndex(hc[parent], fs[parent], parent, child, r.index)],
                    fs, Append(into, parent))

\* The loop of MergeWithParents over the sorted parents ps, from the chains
\* hc: the chains it leaves, the error it returns and the parents it
\* concatenated the child into, in the order of the rounds.
RECURSIVE MergeLoop(_, _, _, _, _)
MergeLoop(child, ps, hc, fs, into) ==
    IF ps = <<>> THEN [hc |-> hc, err |-> FALSE, into |-> into]
    ELSE LET parent == Head(ps)
             r == removeIncompatibleHandlers(hc[child], hc[parent],
                                             Len(hc[child]), Len(hc[parent]))
         IN  IF r.err
             THEN [hc |-> hc, err |-> TRUE, into |-> into]
             ELSE MergeLoop(child, Tail(ps),
                    [hc EXCEPT ![parent] =
                        concatenateAtIndex(hc[parent], fs[parent], parent, child, r.index)],
                    fs, Append(into, parent))

\* The files the directives have named so far, over files 1..n.
RECURSIVE NumIncluded(_, _)
NumIncluded(fs, n) ==
    IF n = 0 THEN 0 ELSE Len(fs[n]) + NumIncluded(fs, n - 1)

NotMerged == [ret |-> "none", before |-> <<>>, after |-> <<>>, into |-> <<>>,
              last |-> 0]

\* AddFileHandler that makes a file its own parent too.
AddFileHandler_selfParent(fileHandler, fh) ==
    /\ mpc = "directives"
    /\ NumIncluded(FileSet, NFiles) < MaxIncludes
    /\ ParentHandlers' = [ParentHandlers EXCEPT ![fh] = Append(@, fileHandler)]
    /\ FileSet' = [FileSet EXCEPT ![fileHandler] = Append(@, fh)]
    /\ UNCHANGED <<HandlerChain, fileHandlers, mpc, merged, windex, output, mergeOthers>>

\* fileHandler.AddFileHandler(fh), called for every file the directives of
\* fileHandler's file name (ConfigureHandlers line 312).
AddFileHandler(fileHandler, fh) ==
    /\ mpc = "directives"
    /\ NumIncluded(FileSet, NFiles) < MaxIncludes
    /\ ParentHandlers' =
            IF fh # fileHandler
            THEN [ParentHandlers EXCEPT ![fh] = Append(@, fileHandler)]
            ELSE ParentHandlers
    /\ FileSet' = [FileSet EXCEPT ![fileHandler] = Append(@, fh)]
    /\ UNCHANGED <<HandlerChain, fileHandlers, mpc, merged, windex, output, mergeOthers>>

\* ConfigureHandlers lines 316-322: a file no directive of its own names is
\* added to its own FileSet, last; then the file handlers are sorted by
\* len(ParentHandlers), most to least, from the order the map gave them.
ConfigureSort ==
    /\ mpc = "directives"
    /\ FileSet' = [f \in Files |->
            IF f \in Range(FileSet[f]) THEN FileSet[f] ELSE Append(FileSet[f], f)]
    /\ fileHandlers' \in
            {s \in {[i \in Files |-> f[i]] : f \in Permutations(Files)} :
                \A i \in 1..(NFiles - 1) :
                    Len(ParentHandlers[s[i]]) >= Len(ParentHandlers[s[i + 1]])}
    /\ mpc' = "merging"
    /\ UNCHANGED <<HandlerChain, ParentHandlers, merged, windex, output, mergeOthers>>

\* The file handlers of manifest.fileHandlers whose round of the loop of
\* lines 325-329 is over.
NumMerged == Cardinality({f \in DOMAIN merged : merged[f].ret # "none"})

\* One round of the loop of ConfigureHandlers lines 325-329: the call of
\* fh.MergeWithParents() for the next file handler.
MergeWithParents(fh) ==
    /\ mpc = "merging"
    /\ NumMerged < Len(fileHandlers)
    /\ fh = fileHandlers[NumMerged + 1]
    /\ \E ps \in SortedByLenHandlerChain(ParentHandlers[fh], HandlerChain) :
        LET r == MergeLoop(fh, ps, HandlerChain, FileSet, <<>>) IN
        /\ ParentHandlers' = [ParentHandlers EXCEPT ![fh] = ps]
        /\ HandlerChain' = r.hc
        /\ merged' = [merged EXCEPT ![fh] =
                [ret |-> IF r.err THEN "error" ELSE "nil",
                 before |-> HandlerChain[fh],
                 after |-> r.hc[fh],
                 into |-> r.into,
                 last |-> IF r.into = <<>> THEN 0 ELSE r.into[Len(r.into)]]]
        /\ mpc' = IF r.err THEN "failed"
                  ELSE IF NumMerged + 1 = Len(fileHandlers) THEN "done"
                  ELSE "merging"
    /\ UNCHANGED <<FileSet, fileHandlers, windex, output, mergeOthers>>

\* Manifest.WriteOutput is called once ConfigureHandlers has returned nil:
\* line 345, i := len(manifest.fileHandlers).
WriteOutput ==
    /\ mpc = "done"
    /\ mpc' = "writing"
    /\ windex' = Len(fileHandlers)
    /\ UNCHANGED <<HandlerChain, FileSet, ParentHandlers, fileHandlers, merged,
                   output, mergeOthers>>

\* Lines 345-351: a file handler with parents is passed over.
WriteContinue ==
    /\ mpc = "writing"
    /\ windex > 0
    /\ Len(ParentHandlers[fileHandlers[windex]]) > 0
    /\ windex' = windex - 1
    /\ UNCHANGED <<HandlerChain, FileSet, ParentHandlers, fileHandlers, mpc, merged,
                   output, mergeOthers>>

\* Lines 353-383: the chain of a file handler without parents is executed
\* and what it gives is written to the output file.
WriteFile ==
    /\ mpc = "writing"
    /\ windex > 0
    /\ Len(ParentHandlers[fileHandlers[windex]]) = 0
    /\ output' = Append(output, fileHandlers[windex])
    /\ windex' = windex - 1
    /\ UNCHANGED <<HandlerChain, FileSet, ParentHandlers, fileHandlers, mpc, merged,
                   mergeOthers>>

\* Lines 355-383: opening, executing or writing fails and WriteOutput
\* returns the error.
WriteFails ==
    /\ mpc = "writing"
    /\ windex > 0
    /\ Len(ParentHandlers[fileHandlers[windex]]) = 0
    /\ mpc' = "write failed"
    /\ UNCHANGED <<HandlerChain, FileSet, ParentHandlers, fileHandlers, merged,
                   windex, output, mergeOthers>>

\* Line 385: the loop is over, WriteOutput returns nil.
WriteReturn ==
    /\ mpc = "writing"
    /\ windex = 0
    /\ mpc' = "written"
    /\ UNCHANGED <<HandlerChain, FileSet, ParentHandlers, fileHandlers, merged,
                   windex, output, mergeOthers>>

\* ConfigureHandlers lines 295-301: every file has the chain NewFileHandler
\* built for it; no directive has been looked at yet.
MergeInit ==
    /\ HandlerChain \in [Files -> InitialChains]
    /\ FileSet = [f \in Files |-> <<>>]
    /\ ParentHandlers = [f \in Files |-> <<>>]
    /\ fileHandlers = <<>>
    /\ mpc = "directives"
    /\ merged = [f \in Files |-> NotMerged]
    /\ windex = 0
    /\ output = <<>>
    /\ FDIdle
    /\ BuildIdle

MergeNext ==
    \/ \E fileHandler \in Files, fh \in Files : AddFileHandler(fileHandler, fh)
    \/ ConfigureSort
    \/ \E fh \in Files : MergeWithParents(fh)
    \/ WriteOutput
    \/ WriteContinue
    \/ WriteFile
    \/ WriteFails
    \/ WriteReturn

SpecMerge == MergeInit /\ [][MergeNext]_vars

(***************************************************************************)
(* What a chain writes when it is executed, as the sequence of the files   *)
(* whose contents it holds. The concatenation handler is not part of the   *)
(* sources at hand; it is modelled from section 4.4 step 2c of the         *)
(* specification: the parent's content so far and the child's whole        *)
(* output, the child's first for Prepend and last for Append. The other    *)
(* steps keep the order of what they are given.                            *)
(***************************************************************************)
RECURSIVE Realized(_, _, _, _)
Realized(chain, k, content, depth) ==
    IF k > Len(chain) THEN content
    ELSE LET step == chain[k]
             child == IF depth = 0 THEN <<step.sub>>
                      ELSE Realized(HandlerChain[step.sub], 1, <<step.sub>>, depth - 1)
         IN  IF step.kind = "concat"
             THEN Realized(chain, k + 1,
                    IF step.mode = "Append" THEN content \o child ELSE child \o content,
                    depth)
             ELSE Realized(chain, k + 1, content, depth)

Output(f) == Realized(HandlerChain[f], 1, <<f>>, NFiles)

(***************************************************************************)
(* Claims about the merge engine.                                          *)
(***************************************************************************)
FirstIndex(seq, x) ==
    IF x \in Range(seq)
    THEN CHOOSE i \in 1..Len(seq) : seq[i] = x /\ \A k \in 1..(i - 1) : seq[k] # x
    ELSE 0

ConcatenationSteps(chain) == {i \in 1..Len(chain) : chain[i].kind = "concat"}

\* The step of chain a that compatibility resolution finds for chain b: the
\* last one whose output extension some step of b has (0 if there is none).
MatchingStep(a, b) ==
    IF Outs(a) \cap Outs(b) = {} THEN 0
    ELSE CHOOSE i \in 1..Len(a) :
            /\ a[i].out \in Outs(b)
            /\ \A k \in (i + 1)..Len(a) : a[k].out \notin Outs(b)

\* C6: after a child chain was merged into its parents without error, its
\* HandlerChain ends at the step matching the parent it was merged into
\* last: the steps after the matching step are gone, the matching step and
\* those before it are kept.
C6_ChildTruncatedAtMatch ==
    \A c \in DOMAIN merged :
        (merged[c].ret = "nil" /\ merged[c].last # 0) =>
            merged[c].after =
                SubSeq(merged[c].before, 1,
                       MatchingStep(merged[c].before, HandlerChain[merged[c].last]))

\* C7: when no step of a child has the output extension of any step of one
\* of its parents, MergeWithParents on the child returns an error and the
\* parent's chain holds no concatenation step for the child.
C7_IncompatibleIsError ==
    \A c \in DOMAIN merged :
        merged[c].ret # "none" =>
            \A p \in Range(ParentHandlers[c]) :
                Outs(merged[c].before) \cap Outs(HandlerChain[p]) = {} =>
                    /\ merged[c].ret = "error"
                    /\ \A i \in ConcatenationSteps(HandlerChain[p]) :
                            HandlerChain[p][i].sub # c

\* MergeWithParents has returned an error for a child none of whose steps
\* has an output extension of the parent it could not be merged into,
\* after it was concatenated into another parent.
C7_Witness ==
    \E c \in DOMAIN merged :
        /\ merged[c].ret = "error"
        /\ merged[c].last # 0
        /\ \E p \in Range(ParentHandlers[c]) :
                Outs(merged[c].before) \cap Outs(HandlerChain[p]) = {}

\* C8: the concatenation step a parent holds for a child has mode Prepend
\* if the child occurs before the parent's own entry in the parent's
\* FileSet and mode Append if the parent's own entry occurs before the
\* child, an entry named more than once standing where it occurs first.
C8_ModeFollowsDeclaredOrder ==
    \A p \in DOMAIN HandlerChain :
        \A i \in ConcatenationSteps(HandlerChain[p]) :
            LET c == HandlerChain[p][i].sub
                atChild == FirstIndex(FileSet[p], c)
                atSelf == FirstIndex(FileSet[p], p)
            IN  /\ atChild > 0
                /\ atSelf > 0
                /\ atChild < atSelf => HandlerChain[p][i].mode = "Prepend"
                /\ atSelf < atChild => HandlerChain[p][i].mode = "Append"

\* A parent that holds a Prepend step for the child declared before its own
\* entry and an Append step for the child declared after it.
C8_Witness ==
    /\ mpc = "done"
    /\ \E p \in Files :
        \E i, k \in ConcatenationSteps(HandlerChain[p]) :
            /\ HandlerChain[p][i].mode = "Prepend"
            /\ HandlerChain[p][k].mode = "Append"
            /\ FirstIndex(FileSet[p], HandlerChain[p][i].sub) < FirstIndex(FileSet[p], p)
            /\ FirstIndex(FileSet[p], p) < FirstIndex(FileSet[p], HandlerChain[p][k].sub)

\* A parent that declares two or more children besides itself, each once,
\* each a file that includes nothing and is included by this parent alone,
\* and that holds their concatenation steps at one and the same extension.
SeveralChildrenAtOneExtension(p) ==
    /\ Len(FileSet[p]) >= 3
    /\ \A i, k \in 1..Len(FileSet[p]) : i # k => FileSet[p][i] # FileSet[p][k]
    /\ \A c \in Range(FileSet[p]) \ {p} :
            /\ FileSet[c] = <<c>>
            /\ ParentHandlers[c] = <<p>>
            /\ \E i \in ConcatenationSteps(HandlerChain[p]) : HandlerChain[p][i].sub = c
    /\ \A i, k \in ConcatenationSteps(HandlerChain[p]) :
            HandlerChain[p][i].out = HandlerChain[p][k].out

\* C9: once ConfigureHandlers has returned without error, a parent with
\* several children compatible at the same extension writes the contents
\* in the declared inclusion order, whatever order the merges ran in.
C9_DeclaredInclusionOrder ==
    mpc = "done" =>
        \A p \in Files :
            SeveralChildrenAtOneExtension(p) => Output(p) = FileSet[p]

\* The files a file includes, itself left out, and the files it reaches
\* over any number of inclusions.
Includes(S) == {c \in Files : \E p \in S : c # p /\ c \in Range(FileSet[p])}

RECURSIVE IncludedFrom(_, _)
IncludedFrom(S, k) == IF k = 0 THEN S ELSE IncludedFrom(S \cup Includes(S), k - 1)

InclusionCycle == \E f \in Files : f \in IncludedFrom(Includes({f}), NFiles)

\* C10: ConfigureHandlers does not return without error when the inclusion
\* graph holds a cycle between distinct chains.
C10_InclusionCycleIsError ==
    mpc = "done" => ~InclusionCycle

(***************************************************************************)
(* The execution engine: FileHandler.Handle,                               *)
(* src/matrix/file_handler.go lines 113-168.                               *)
(*                                                                         *)
(* An io.Pipe is synchronous: Write returns once the reader has taken the  *)
(* data, so a pipe holds at most one chunk and its writer takes no further *)
(* step while the chunk is there; Read blocks until there is a chunk or    *)
(* the writer has closed the pipe, and then returns the error the pipe was *)
(* closed with (nil: io.EOF). No reader of Handle closes its end.          *)
(*                                                                         *)
(* Errors are numbers: 0 is nil, i the failure the transformation of step  *)
(* i returns, OpenError the failure of os.Open.                            *)
(***************************************************************************)
MaxSteps == 2       \* steps of the chain executed
MaxFile == 1        \* chunks of the source file
MaxFds == 2         \* largest RequiredFds() of a step

OpenError == -1
NotFDHandler == -1  \* a step that is no FDHandler

EmptyPipe == [data |-> 0, closed |-> FALSE, cerr |-> 0]

\* The goroutine of a step: fds is the number of its sends to fdBucket
\* less the number of its receives.
NewWorker == [pc |-> "start", n |-> 0, in |-> "pipe", buf |-> 0, hold |-> 0,
              result |-> 0, failed |-> FALSE, deferred |-> FALSE, fds |-> 0]

Steps == 1..Len(execChain)

\* Handle is called: line 114, the call of shouldOpenFD(1).
HandleCall ==
    /\ handle.pc = "idle"
    /\ handle' = [handle EXCEPT !.pc = "try"]
    /\ UNCHANGED <<capacity, held, execChain, file, pipes, err, source, worker,
                   others, handleOthers>>

\* Line 114: shouldOpenFD(1), whose loop runs once.
HandleShouldOpenFD ==
    /\ handle.pc = "try"
    /\ IF held < capacity
       THEN /\ SendFD
            /\ handle' = [handle EXCEPT !.pc = "open"]
       ELSE /\ handle' = [handle EXCEPT !.pc = "wait"]
            /\ UNCHANGED held
    /\ UNCHANGED <<capacity, execChain, file, pipes, err, source, worker, others, handleOthers>>

\* Line 115: waitFD().
HandleWaitFD ==
    /\ handle.pc = "wait"
    /\ SendFD
    /\ handle' = [handle EXCEPT !.pc = "open"]
    /\ UNCHANGED <<capacity, execChain, file, pipes, err, source, worker, others, handleOthers>>

\* Lines 118-121: os.Open fails and Handle returns its error.
HandleOpenFails ==
    /\ handle.pc = "open"
    /\ err' = OpenError
    /\ handle' = [handle EXCEPT !.pc = "returned", !.ret = OpenError]
    /\ UNCHANGED <<capacity, held, execChain, file, pipes, source, worker, others, handleOthers>>

\* Lines 118-164: os.Open succeeds; the pipes are made and the goroutines
\* of the source and of every step are started.
HandleOpen ==
    /\ handle.pc = "open"
    /\ err' = 0
    /\ source' = [pc |-> "copy"]
    /\ worker' = [i \in Steps |-> NewWorker]
    /\ handle' = [handle EXCEPT !.pc = "copy"]
    /\ UNCHANGED <<capacity, held, execChain, file, pipes, others, handleOthers>>

\* Line 126: io.Copy(w, f) writes the next chunk of the file.
SourceWrite ==
    /\ source.pc = "copy"
    /\ file > 0
    /\ pipes[1].data = 0
    /\ file' = file - 1
    /\ pipes' = [pipes EXCEPT ![1].data = 1]
    /\ UNCHANGED <<capacity, held, execChain, err, handle, source, worker, others, handleOthers>>

\* Line 126: io.Copy(w, f) returns nil at the end of the file and the
\* result is assigned to err.
SourceAssign ==
    /\ source.pc = "copy"
    /\ file = 0
    /\ pipes[1].data = 0
    /\ err' = 0
    /\ source' = [pc |-> "close"]
    /\ UNCHANGED <<capacity, held, execChain, file, pipes, handle, worker, others, handleOthers>>

\* Lines 128-129: w.CloseWithError(err); f.Close().
SourceClose ==
    /\ source.pc = "close"
    /\ pipes' = [pipes EXCEPT ![1].closed = TRUE, ![1].cerr = err]
    /\ source' = [pc |-> "fdClosed"]
    /\ UNCHANGED <<capacity, held, execChain, file, err, handle, worker, others, handleOthers>>

\* Line 130: fdClosed().
SourceFdClosed ==
    /\ source.pc = "fdClosed"
    /\ RecvFD
    /\ source' = [pc |-> "done"]
    /\ UNCHANGED <<capacity, execChain, file, pipes, err, handle, worker, others, handleOthers>>

\* Lines 136-140 and 153: the step is no FDHandler, or it is one and
\* declares no descriptor (the release is deferred all the same), or it
\* declares some and shouldOpenFD(nFds) is called.
WorkerStart(i) ==
    /\ worker[i].pc = "start"
    /\ worker' = [worker EXCEPT ![i] =
            IF execChain[i] = NotFDHandler THEN [@ EXCEPT !.pc = "run"]
            ELSE IF execChain[i] > 0 THEN [@ EXCEPT !.pc = "try", !.n = execChain[i]]
            ELSE [@ EXCEPT !.pc = "run", !.deferred = TRUE]]
    /\ UNCHANGED <<capacity, held, execChain, file, pipes, err, handle, source,
                   others, handleOthers>>

\* Line 140: one iteration of the loop of shouldOpenFD(nFds).
WorkerShouldOpenFD(i) ==
    /\ worker[i].pc = "try"
    /\ IF held < capacity
       THEN /\ SendFD
            /\ worker' = [worker EXCEPT ![i] =
                    IF worker[i].n - 1 = 0
                    THEN [@ EXCEPT !.pc = "run", !.n = 0, !.deferred = TRUE,
                                   !.fds = @ + 1]
                    ELSE [@ EXCEPT !.n = @ - 1, !.fds = @ + 1]]
       ELSE /\ worker' = [worker EXCEPT ![i] = [@ EXCEPT !.pc = "buffer", !.n = 0]]
            /\ UNCHANGED held
    /\ UNCHANGED <<capacity, execChain, file, pipes, err, handle, source, others, handleOthers>>

\* Lines 141-149: io.Copy(data, in) reads the input into memory; a read
\* error closes the output with it and ends the goroutine, the end of the
\* input makes the buffer the input.
WorkerBuffer(i) ==
    /\ worker[i].pc = "buffer"
    /\ IF pipes[i].data = 1
       THEN /\ pipes' = [pipes EXCEPT ![i].data = 0]
            /\ worker' = [worker EXCEPT ![i].buf = @ + 1]
       ELSE /\ pipes[i].closed
            /\ IF pipes[i].cerr # 0
               THEN /\ pipes' = [pipes EXCEPT ![i + 1].closed = TRUE,
                                             ![i + 1].cerr = pipes[i].cerr]
                    /\ worker' = [worker EXCEPT ![i] = [@ EXCEPT !.pc = "done", !.buf = 0]]
               ELSE /\ worker' = [worker EXCEPT ![i] = [@ EXCEPT !.pc = "wait", !.in = "buffer"]]
                    /\ UNCHANGED pipes
    /\ UNCHANGED <<capacity, held, execChain, file, err, handle, source, others, handleOthers>>

\* Lines 151-153: waitFD(), then the release is deferred.
WorkerWaitFD(i) ==
    /\ worker[i].pc = "wait"
    /\ SendFD
    /\ worker' = [worker EXCEPT ![i] =
            [@ EXCEPT !.pc = "run", !.deferred = TRUE, !.fds = @ + 1]]
    /\ UNCHANGED <<capacity, execChain, file, pipes, err, handle, source, others, handleOthers>>

\* Line 156, inside handler.Handle: the transformation reads its input, a
\* chunk or the end; at the end it returns what the input ended with.
WorkerRead(i) ==
    /\ worker[i].pc = "run"
    /\ worker[i].hold = 0
    /\ pipes[i + 1].data = 0
    /\ IF worker[i].in = "buffer"
       THEN /\ worker' = [worker EXCEPT ![i] =
                    IF worker[i].buf > 0
                    THEN [@ EXCEPT !.buf = @ - 1, !.hold = 1]
                    ELSE [@ EXCEPT !.pc = "assign", !.result = 0]]
            /\ UNCHANGED pipes
       ELSE IF pipes[i].data = 1
       THEN /\ pipes' = [pipes EXCEPT ![i].data = 0]
            /\ worker' = [worker EXCEPT ![i].hold = 1]
       ELSE /\ pipes[i].closed
            /\ worker' = [worker EXCEPT ![i] =
                    [@ EXCEPT !.pc = "assign", !.result = pipes[i].cerr]]
            /\ UNCHANGED pipes
    /\ UNCHANGED <<capacity, held, execChain, file, err, handle, source, others, handleOthers>>

\* Line 156, inside handler.Handle: the transformation writes what it made
\* of the chunk it read.
WorkerWrite(i) ==
    /\ worker[i].pc = "run"
    /\ worker[i].hold = 1
    /\ pipes[i + 1].data = 0
    /\ pipes' = [pipes EXCEPT ![i + 1].data = 1]
    /\ worker' = [worker EXCEPT ![i].hold = 0]
    /\ UNCHANGED <<capacity, held, execChain, file, err, handle, source, others, handleOthers>>

\* Line 156, inside handler.Handle: the transformation returns a failure
\* of its own, whatever it has read of its input.
WorkerFails(i) ==
    /\ worker[i].pc = "run"
    /\ pipes[i + 1].data = 0
    /\ worker' = [worker EXCEPT ![i] =
            [@ EXCEPT !.pc = "assign", !.result = i, !.failed = TRUE, !.hold = 0]]
    /\ UNCHANGED <<capacity, held, execChain, file, pipes, err, handle, source,
                   others, handleOthers>>

\* Line 156: err = handler.Handle(...), the assignment.
WorkerAssign(i) ==
    /\ worker[i].pc = "assign"
    /\ err' = worker[i].result
    /\ worker' = [worker EXCEPT ![i].pc = "close"]
    /\ UNCHANGED <<capacity, held, execChain, file, pipes, handle, source, others, handleOthers>>

\* Line 157: w.CloseWithError(err); then the goroutine ends, with the
\* deferred release if there is one.
WorkerClose(i) ==
    /\ worker[i].pc = "close"
    /\ pipes' = [pipes EXCEPT ![i + 1].closed = TRUE, ![i + 1].cerr = err]
    /\ worker' = [worker EXCEPT ![i].pc =
            IF worker[i].deferred THEN "fdClosed" ELSE "done"]
    /\ UNCHANGED <<capacity, held, execChain, file, err, handle, source, others, handleOthers>>

\* Line 153: the deferred fdClosed().
WorkerFdClosed(i) ==
    /\ worker[i].pc = "fdClosed"
    /\ RecvFD
    /\ worker' = [worker EXCEPT ![i] = [@ EXCEPT !.pc = "done", !.fds = @ - 1]]
    /\ UNCHANGED <<capacity, execChain, file, pipes, err, handle, source, others, handleOthers>>

\* Line 166: io.Copy(out, r) reads the output of the last step.
HandleCopy ==
    /\ handle.pc = "copy"
    /\ LET last == Len(execChain) + 1 IN
       IF pipes[last].data = 1
       THEN /\ pipes' = [pipes EXCEPT ![last].data = 0]
            /\ UNCHANGED handle
       ELSE /\ pipes[last].closed
            /\ handle' = [handle EXCEPT !.pc = "assign", !.copied = pipes[last].cerr]
            /\ UNCHANGED pipes
    /\ UNCHANGED <<capacity, held, execChain, file, err, source, worker, others, handleOthers>>

\* Line 166: _, err = io.Copy(out, r), the assignment.
HandleAssign ==
    /\ handle.pc = "assign"
    /\ err' = handle.copied
    /\ handle' = [handle EXCEPT !.pc = "return"]
    /\ UNCHANGED <<capacity, held, execChain, file, pipes, source, worker, others, handleOthers>>

\* Line 167: return, with the value err has then.
HandleReturn ==
    /\ handle.pc = "return"
    /\ handle' = [handle EXCEPT !.pc = "returned", !.ret = err]
    /\ UNCHANGED <<capacity, held, execChain, file, pipes, err, source, worker,
                   others, handleOthers>>

\* fdClosed() by another user of the pool (another chain being executed),
\* for a permit it holds.
OtherFdClosed ==
    /\ others > 0
    /\ RecvFD
    /\ others' = others - 1
    /\ UNCHANGED <<capacity, execChain, file, pipes, err, handle, source, worker,
                   handleOthers>>

\* A chain of steps, each no FDHandler or one with its RequiredFds(), a
\* source file, and a pool of which other users hold some permits.
HandleInit ==
    /\ \E limit \in 1..MaxCap : capacity = limit
    /\ held \in 0..capacity
    /\ others = held
    /\ fdCall = [c \in Clients |-> IdleCall]
    /\ execChain \in UNION {[1..n -> {NotFDHandler} \cup (0..MaxFds)] : n \in 1..MaxSteps}
    /\ file \in 0..MaxFile
    /\ pipes = [i \in 1..(Len(execChain) + 1) |-> EmptyPipe]
    /\ err = 0
    /\ handle = [pc |-> "idle", copied |-> 0, ret |-> 0]
    /\ source = [pc |-> "idle"]
    /\ worker = [i \in Steps |-> [NewWorker EXCEPT !.pc = "idle"]]
    /\ BuildIdle
    /\ MergeIdle

HandleNext ==
    \/ HandleCall
    \/ HandleShouldOpenFD
    \/ HandleWaitFD
    \/ HandleOpenFails
    \/ HandleOpen
    \/ SourceWrite
    \/ SourceAssign
    \/ SourceClose
    \/ SourceFdClosed
    \/ \E i \in Steps : WorkerStart(i)
    \/ \E i \in Steps : WorkerShouldOpenFD(i)
    \/ \E i \in Steps : WorkerBuffer(i)
    \/ \E i \in Steps : WorkerWaitFD(i)
    \/ \E i \in Steps : WorkerRead(i)
    \/ \E i \in Steps : WorkerWrite(i)
    \/ \E i \in Steps : WorkerFails(i)
    \/ \E i \in Steps : WorkerAssign(i)
    \/ \E i \in Steps : WorkerClose(i)
    \/ \E i \in Steps : WorkerFdClosed(i)
    \/ HandleCopy
    \/ HandleAssign
    \/ HandleReturn
    \/ OtherFdClosed

SpecHandle == HandleInit /\ [][HandleNext]_vars

(***************************************************************************)
(* Claims about Handle.                                                    *)
(***************************************************************************)

\* Handle was called and neither it, nor any of its goroutines, nor any
\* other user of the pool can take a further step.
Quiescent ==
    /\ handle.pc # "idle"
    /\ ~ENABLED HandleNext

\* C4: every permit acquired during Handle is released on every exit path:
\* once the goroutines of the call have finished or can make no further
\* step, the held count is what it was before the call (all of it then held
\* by the other users of the pool), less what those have released since.
C4_PermitsReleased ==
    Quiescent => held = others

\* C5: a step whose transformation returned a failure terminates its output
\* stream with that failure, and Handle returns a non-nil error.
C5_FailurePropagates ==
    /\ \A i \in Steps :
            (worker[i].failed /\ pipes[i + 1].closed) => pipes[i + 1].cerr = i
    /\ (handle.pc = "returned" /\ \E i \in Steps : worker[i].failed) =>
            handle.ret # 0

\* Fair scheduling: a goroutine that can take a step takes one, and every
\* step of Handle moves some goroutine forward for good (a transformation
\* ends after it has read its input), so a behaviour stops only where no
\* goroutine can move.
SpecHandleFair == SpecHandle /\ WF_vars(HandleNext)

\* The goroutine of step i stands in waitFD().
WorkerWaits(i) == IF i \in DOMAIN worker THEN worker[i].pc = "wait" ELSE FALSE

\* C11: under fair scheduling every waitFD() of Handle returns (that of
\* line 115 and that of line 151 of every step) and Handle returns.
C11_HandleReturns ==
    /\ (handle.pc = "wait") ~> (handle.pc # "wait")
    /\ \A i \in 1..MaxSteps : WorkerWaits(i) ~> ~WorkerWaits(i)
    /\ <>(handle.pc = "returned")

(***************************************************************************)
(* Claims about the chain builder.                                         *)
(***************************************************************************)
ForkSteps(chain) == {i \in 1..Len(chain) : chain[i].kind = "fork"}

\* Extension x has exactly two registered transformations, both Fork-mode,
\* to two other extensions.
TwoForkEntries(x) ==
    /\ Cardinality(Entries(registeredHandlers[x])) = 2
    /\ \A out \in Entries(registeredHandlers[x]) :
            /\ registeredHandlers[x][out] = "Fork"
            /\ out # x

\* C12: for an extension x with exactly two registered transformations,
\* both Fork-mode, NewFileHandler(x) returns (its recursion never outgrows
\* the stack) and the chain it returns holds exactly two fork steps at the
\* top level.
C12_TwoForkSteps ==
    \A x \in Exts :
        (root = x /\ TwoForkEntries(x)) =>
            /\ bpc # "overflow"
            /\ bpc = "done" => Cardinality(ForkSteps(chains[1])) = 2

\* Nothing is registered for extension x, nor for the wildcard.
NothingRegistered(x) ==
    /\ Entries(registeredHandlers[x]) = {}
    /\ Entries(registeredHandlers[Wildcard]) = {}

\* C13: for an extension with no registered transformation and no wildcard
\* registration NewFileHandler returns a chain of exactly one step, the
\* default pass-through step, whose output extension is the input
\* extension.
C13_DefaultFallback ==
    \A x \in Exts :
        (root = x /\ NothingRegistered(x)) =>
            /\ bpc # "overflow"
            /\ bpc = "done" =>
                /\ Len(chains[1]) = 1
                /\ chains[1][1].kind = "default"
                /\ chains[1][1].out = x

\* NewFileHandler has returned the default chain for an extension with
\* nothing registered while other extensions have transformations.
C13_Witness ==
    /\ bpc = "done"
    /\ NothingRegistered(root)
    /\ NumRegistered > 0
    /\ Len(chains[1]) = 1
    /\ chains[1][1].kind = "default"

(***************************************************************************)
(* Claims about the extension registry.                                    *)
(***************************************************************************)
RegistryNext ==
    \E inExt \in Keys, outExt \in Exts, mode \in InputModes :
        RegisterCall(inExt, outExt, mode)

SpecRegistry == BuildInit /\ [][RegistryNext]_vars

\* What the latest call of Register for the pair (inExt, outExt) among the
\* calls of log registered, "none" if there is no such call.
RECURSIVE Latest(_, _, _)
Latest(log, inExt, outExt) ==
    IF log = <<>> THEN "none"
    ELSE LET call == log[Len(log)] IN
         IF call[1] = inExt /\ call[2] = outExt THEN call[3]
         ELSE Latest(SubSeq(log, 1, Len(log) - 1), inExt, outExt)

RegisteredUnder(inExt) == [out \in Exts |-> Latest(calls, inExt, out)]

\* C14: after any sequence of Register calls FindHandlers(inExt) returns
\* exactly the entries registered under inExt, each as its latest Register
\* left it, if there is one; otherwise exactly those registered under the
\* wildcard; otherwise none.
C14_FindHandlersExact ==
    \A inExt \in Keys :
        FindHandlers(inExt) =
            IF \E out \in Exts : RegisteredUnder(inExt)[out] # "none"
            THEN RegisteredUnder(inExt)
            ELSE RegisteredUnder(Wildcard)

\* A pair was registered twice with different options, an extension has
\* entries of its own that are not those of the wildcard, and another
\* extension has none and gets those of the wildcard.
C14_Witness ==
    /\ \E i, j \in 1..Len(calls) :
            /\ i < j
            /\ calls[i][1] = calls[j][1]
            /\ calls[i][2] = calls[j][2]
            /\ calls[i][3] # calls[j][3]
            /\ calls[j][1] \in Exts
    /\ Entries(registeredHandlers[Wildcard]) # {}
    /\ \E x, y \in Exts :
            /\ Entries(FindHandlers(x)) # {}
            /\ Entries(FindHandlers(x)) \cap Entries(registeredHandlers[Wildcard]) = {}
            /\ Entries(registeredHandlers[y]) = {}
            /\ FindHandlers(y) = registeredHandlers[Wildcard]

\* No wildcard entry, at most one registered transformation for every
\* extension, all of them Flow-mode, over an acyclic extension graph.
LinearRegistry ==
    /\ Entries(registeredHandlers[Wildcard]) = {}
    /\ \A x \in Exts :
            /\ Cardinality(Entries(registeredHandlers[x])) <= 1
            /\ \A out \in Entries(registeredHandlers[x]) :
                    registeredHandlers[x][out] = "Flow"
    /\ Acyclic

\* The transformations met following the registered entries from e, k of
\* them at most, until an unregistered extension is reached.
RECURSIVE FlowPath(_, _)
FlowPath(e, k) ==
    IF k = 0 \/ Entries(registeredHandlers[e]) = {} THEN <<>>
    ELSE LET out == CHOOSE o \in Entries(registeredHandlers[e]) : TRUE
         IN  <<HandlerStep(e, out)>> \o FlowPath(out, k - 1)

\* The steps of a chain that are registered transformations of extension x.
FlowStepsFrom(chain, x) ==
    {i \in 1..Len(chain) : chain[i].kind = "handler" /\ chain[i].in = x}

\* C19: over a linear registry NewFileHandler(e), e registered, returns
\* exactly the transformations met following the Flow entries from e,
\* with no fork step and no default step after them; and in general, over
\* an acyclic extension graph (where a chain visits an extension once), a
\* chain holds at most one Flow entry of an extension.
C19_LinearFlowChain ==
    /\ \A e \in Exts :
        (root = e /\ LinearRegistry /\ Entries(registeredHandlers[e]) # {}) =>
            /\ bpc # "overflow"
            /\ bpc = "done" =>
                /\ chains[1] = FlowPath(e, Cardinality(Exts))
                /\ Len(chains) = 1
    /\ Acyclic =>
        \A f \in DOMAIN chains : \A x \in Exts :
            Cardinality(FlowStepsFrom(chains[f], x)) <= 1

\* NewFileHandler has returned a chain of two transformations or more over
\* a linear registry.
C19_Witness ==
    /\ bpc = "done"
    /\ LinearRegistry
    /\ Len(chains[1]) >= 2
    /\ chains[1] = FlowPath(root, Cardinality(Exts))

(***************************************************************************)
(* Claims about WriteOutput.                                               *)
(***************************************************************************)

\* Some other file's declared child ordering names file f.
IncludedByAnother(f) == \E p \in Files : p # f /\ f \in Range(FileSet[p])

\* C15: WriteOutput writes a chain if and only if no other chain includes
\* it: no file is its own parent, a file written is included by no other
\* file, and once WriteOutput has returned nil every file included by none
\* but itself has been written, once.
C15_RootsAreWritten ==
    /\ \A f \in DOMAIN ParentHandlers : f \notin Range(ParentHandlers[f])
    /\ \A i \in 1..Len(output) :
            /\ ~IncludedByAnother(output[i])
            /\ \A k \in 1..Len(output) : output[k] = output[i] => k = i
    /\ mpc = "written" =>
            \A f \in Files : ~IncludedByAnother(f) => f \in Range(output)

\* WriteOutput has returned nil having written a file whose directives
\* name itself, then another file, and a second file, and having passed
\* over the included file.
C15_Witness ==
    /\ mpc = "written"
    /\ \E f, g, h \in Files :
            /\ f \in Range(output)
            /\ Len(FileSet[f]) >= 2
            /\ FileSet[f][1] = f
            /\ g \in Range(FileSet[f]) \ {f}
            /\ g \notin Range(output)
            /\ h \in Range(output) \ {f}

\* C16: the goroutine of a step releases as many permits as it acquired: a
\* step that is no FDHandler never holds one, a step that materialized its
\* input holds exactly one while its transformation runs, and every step
\* holds none once its goroutine has ended.
C16_WorkerReleasesWhatItAcquired ==
    \A i \in DOMAIN worker :
        /\ execChain[i] = NotFDHandler => worker[i].fds = 0
        /\ (worker[i].in = "buffer" /\ worker[i].pc \in {"run", "assign", "close"})
                => worker[i].fds = 1
        /\ worker[i].pc = "done" => worker[i].fds = 0

(***************************************************************************)
(* Further claims about the merge engine.                                  *)
(***************************************************************************)

\* The last step of a chain with the output extension ext.
LastWithOut(chain, ext) ==
    CHOOSE j \in 1..Len(chain) :
        /\ chain[j].out = ext
        /\ \A k \in (j + 1)..Len(chain) : chain[k].out # ext

Occurrences(seq, x) == Cardinality({i \in 1..Len(seq) : seq[i] = x})

\* What one successful merge of child c makes of the chain before of
\* parent p into the chain after: one concatenation step for c more, right
\* after the step of p matched with the last step of c that has a match,
\* with that step's output extension, the other steps where they were.
OneStepInserted(c, childChain, before, after) ==
    LET i == MatchingStep(childChain, before)
        j == LastWithOut(before, childChain[i].out)
    IN  /\ Len(after) = Len(before) + 1
        /\ SubSeq(after, 1, j) = SubSeq(before, 1, j)
        /\ after[j + 1].kind = "concat"
        /\ after[j + 1].sub = c
        /\ after[j + 1].out = before[j].out
        /\ SubSeq(after, j + 2, Len(after)) = SubSeq(before, j + 1, Len(before))

\* C17: a successful MergeWithParents of child c inserts one concatenation
\* step into a parent's chain for every time the parent stands in c's
\* ParentHandlers, right after the matched parent step and with its output
\* extension, leaves the parent's other steps in their order and the other
\* chains alone; and in every state a concatenation step comes right after
\* a step with the same output extension.
C17_InsertedAfterMatch ==
    /\ [][\A c \in DOMAIN merged :
            (merged[c].ret = "none" /\ merged'[c].ret = "nil") =>
                \A p \in DOMAIN HandlerChain :
                    LET occ == Occurrences(ParentHandlers[c], p) IN
                    /\ Len(HandlerChain'[p]) = Len(HandlerChain[p]) + occ
                    /\ occ = 0 => HandlerChain'[p] = HandlerChain[p]
                    /\ occ = 1 => OneStepInserted(c, HandlerChain[c],
                                        HandlerChain[p], HandlerChain'[p])
         ]_vars
    /\ [](\A p \in DOMAIN HandlerChain :
            \A i \in ConcatenationSteps(HandlerChain[p]) :
                /\ i > 1
                /\ HandlerChain[p][i - 1].out = HandlerChain[p][i].out)

\* A child was merged into a parent at a step that is not the parent's
\* last: a transformation follows the concatenation step.
C17_Witness ==
    \E p \in DOMAIN HandlerChain :
        \E i \in ConcatenationSteps(HandlerChain[p]) :
            /\ i < Len(HandlerChain[p])
            /\ HandlerChain[p][i + 1].kind = "handler"
            /\ merged[HandlerChain[p][i].sub].ret = "nil"

\* C18: MergeWithParents concatenates the child into its parents in the
\* ascending order of the lengths the parents' chains have at the call: of
\* two parents the one that gets its concatenation step first has no
\* longer a chain than the other.
C18_ShorterParentFirst ==
    [][\A c \in DOMAIN merged :
        (merged[c].ret = "none" /\ merged'[c].ret # "none") =>
            \A a, b \in 1..Len(merged'[c].into) :
                a < b => Len(HandlerChain[merged'[c].into[a]])
                            <= Len(HandlerChain[merged'[c].into[b]])
      ]_vars

\* A child was concatenated into two parents, the first with a chain
\* shorter than the second's.
C18_Witness ==
    \E c \in DOMAIN merged :
        /\ merged[c].ret = "nil"
        /\ Len(merged[c].into) = 2
        /\ Len(HandlerChain[merged[c].into[1]]) < Len(HandlerChain[merged[c].into[2]])

(***************************************************************************)
(* A further claim about the FD budget.                                    *)
(***************************************************************************)

\* The n a call of shouldOpenFD in progress was made with: what it still
\* has to claim and what it has claimed.
Want(c) == fdCall[c].n + (held - fdCall[c].expect)

\* The permits that were free when a call in progress was made, for a call
\* no other goroutine has disturbed.
FreeAtCall(c) == capacity - fdCall[c].expect

\* C20: shouldOpenFD(n) never blocks; with no concurrent activity on the
\* pool it returns true if and only if n permits or more were free at the
\* call; and when it returns true it has claimed exactly n permits.
C20_TryAcquireAllOrFail ==
    /\ [](\A c \in Clients : fdCall[c].pc = "try" => ENABLED shouldOpenFD(c))
    /\ [][\A c \in Clients :
            (fdCall[c].pc = "try" /\ fdCall'[c].pc = "idle") =>
                /\ fdCall'[c].alone =>
                        (fdCall'[c].ret = "true" <=> FreeAtCall(c) >= Want(c))
                /\ fdCall'[c].ret = "true" => fdCall'[c].kept = Want(c)
         ]_vars

\* Undisturbed, a call has returned true with two permits or more and
\* another has returned false with a permit it found free.
C20_Witness ==
    \E c, d \in Clients :
        /\ fdCall[c].ret = "true"
        /\ fdCall[c].alone
        /\ fdCall[c].kept >= 2
        /\ fdCall[d].ret = "false"
        /\ fdCall[d].alone
        /\ fdCall[d].kept >= 1

====
